---- MODULE Spec2Model ----
(***************************************************************************)
(* Model of the invensys-backend asset allocation engine: the relational   *)
(* store (laptops, status vocabulary, users, allocation ledger,            *)
(* procurement ledger, audit log, organisations), the blob store, and the  *)
(* request handlers of apis/v1/route_laptop_allocation.py,                 *)
(* route_laptop_details.py, route_laptop_procurement.py and route_user.py  *)
(* with their repository functions.                                        *)
(*                                                                         *)
(* Every request runs in its own AsyncSession (db/sessions.py:11-21,       *)
(* autoflush=False, autocommit=False).  Objects changed by a handler live  *)
(* in the session until db.commit(), which flushes the INSERT/UPDATE       *)
(* statements and commits them in one transaction.  Handlers suspend at    *)
(* their awaits, so requests interleave at database round trips; a session *)
(* that ends without commit is rolled back.                                *)
(***************************************************************************)
EXTENDS Integers, Sequences, FiniteSets, TLC

\* ---------------------------------------------------------------- bounds
MaxLaptops == 1
MaxAllocs == 2
MaxUsers == 2
MaxUploads == 1
MaxOrgs == 1
MaxPurchases == 2
MaxAudit == 3

Sessions == {"s1", "s2"}

\* ------------------------------------------------------------- vocabulary
None == 0
NoKey == <<>>

\* db/seed.py:39 -- the status names in seeding order; the integer primary
\* key of is_laptopstatus follows the insertion order.
StatusNames == <<"Available", "Allocated", "Under Repair", "Retired", "Lost">>

StatusIds == 1..Len(StatusNames)

SeededStatuses == {[id |-> i, status_name |-> StatusNames[i]] : i \in StatusIds}

LaptopIds == 1..MaxLaptops
AllocIds == 1..MaxAllocs
UserIds == 1..MaxUsers

\* schemas/laptop_allocation.py:51-54 -- two distinguishable CreateReturn
\* payloads
FirstReturn ==
  [return_date |-> 1, return_comment |-> "c1", condition_on_return |-> "good"]

SecondReturn ==
  [return_date |-> 2, return_comment |-> "c2", condition_on_return |-> "damaged"]

ReturnInputs == {FirstReturn, SecondReturn}

VARIABLES
  laptop_status,   \* rows of is_laptopstatus
  laptops,         \* rows of is_laptopdetail: id -> [status_id]
  users,           \* ids of the rows of is_user
  allocations,     \* rows of is_laptopallocation: id -> record
  organizations,   \* number of rows of the organisation table
  blobs,           \* object names stored in the MinIO bucket
  uuid_counter,    \* number of uuid4() suffixes drawn for object names
  pc,              \* per session: position of the running handler
  loc,             \* per session: the handler's locals / session objects
  response,        \* the last response sent to a client
  superusers,      \* ids of the rows of is_user with is_superuser = True
  procurements,    \* rows of is_laptopprocurement: id -> record
  audit_logs,      \* rows of is_auditlogs in insertion order
  laptop_counter,  \* number of primary keys drawn for is_laptopdetail
  alloc_counter,   \* number of primary keys drawn for is_laptopallocation
  url              \* the last presigned URL handed to a client

vars == <<laptop_status, laptops, users, allocations, organizations, blobs,
          uuid_counter, pc, loc, response, superusers, procurements,
          audit_logs, laptop_counter, alloc_counter, url>>

\* The tables and counters that the Asset Registry's add, the Allocation
\* Ledger and the Document Workflow never write: the superuser flags, the
\* procurement ledger, the audit log, the key counters and the last
\* presigned URL.
others == <<superusers, procurements, audit_logs, laptop_counter, alloc_counter,
            url>>

\* ------------------------------------------------------------ row helpers

\* select(LaptopStatus).where(status_name == name) ... scalar_one_or_none()
StatusByName(name) ==
  IF \E r \in laptop_status : r.status_name = name
  THEN (CHOOSE r \in laptop_status : r.status_name = name).id
  ELSE None

StatusIdExists(id) == \E r \in laptop_status : r.id = id

LaptopExists(l) == l \in DOMAIN laptops

AllocExists(a) == a \in DOMAIN allocations

\* LaptopAllocation(...) as constructed by repo_create_allocation; the
\* nullable columns start as NULL and is_active defaults to True.
NewAllocation(user_id, laptop_id, allocator_id) ==
  [ user_id |-> user_id, laptop_id |-> laptop_id, allocated_by |-> allocator_id,
    is_active |-> TRUE, allocation_form |-> NoKey, return_form |-> NoKey,
    return_date |-> None, return_comment |-> "", returned_by |-> None,
    condition_on_return |-> "" ]

\* A uuid4 primary key is never handed out twice: the key of a new
\* allocation is past every key drawn so far, deleted rows included.
NextAllocId == alloc_counter + 1

\* A uuid4 primary key is never handed out twice, so the key of a new laptop
\* is past every key drawn so far, deleted rows included.
NextLaptopId == laptop_counter + 1

IdleLoc == [op |-> "none"]

IsLaptopAllocated(l) ==
  LaptopExists(l) /\ StatusByName("Allocated") # None
                  /\ laptops[l].status_id = StatusByName("Allocated")

ActiveAllocs(l) == {a \in DOMAIN allocations :
                      allocations[a].laptop_id = l /\ allocations[a].is_active}

\* The response of a finished request: the operation and its outcome (the
\* HTTP status class the handler or the framework answers with).
Respond(op, status) == response' = [op |-> op, status |-> status]

\* ------------------------------------------------------------------- Init
\* The database after lifespan start-up (main.py:25-36).  safe_seed_data
\* seeds the five statuses and the admin user only when no user exists
\* (db/seed.py:18-28), so a database carried over with users but with an
\* incomplete status table is not repaired: the vocabulary is either the
\* seeded one or lacks a row.
Init ==
  /\ laptop_status \in { SeededStatuses,
                         {r \in SeededStatuses : r.status_name # "Allocated"},
                         {r \in SeededStatuses : r.status_name # "Available"} }
  /\ laptops = << >>
  /\ users = {1}
  /\ allocations = << >>
  /\ organizations = 0
  /\ blobs = {}
  /\ uuid_counter = 0
  /\ pc = [s \in Sessions |-> "idle"]
  /\ loc = [s \in Sessions |-> IdleLoc]
  /\ response = [op |-> "none", status |-> "none"]
  /\ superusers = {1}
  /\ procurements = << >>
  /\ audit_logs = << >>
  /\ laptop_counter = 0
  /\ alloc_counter = 0
  /\ url = NoKey

\* ------------------------------------------------------- user management

\* api_create_user and repo_create_user; a user is identified by its
\* username, which the handler keeps unique.  A requester who is not a
\* superuser gets the un-awaited coroutine of
\* repo_report_unauthorized_access as return value, which fails the
\* response_model validation (500); nobody is created.  A duplicate
\* username is answered with 409.  The new row takes the column default
\* is_superuser = False.
CreateUser(s, actor, user) ==
  /\ pc[s] = "idle"
  /\ actor \in users
  /\ IF actor \notin superusers
     THEN /\ UNCHANGED users
          /\ Respond("create_user", "InternalError")
     ELSE IF user \in users
     THEN /\ UNCHANGED users
          /\ Respond("create_user", "Conflict")
     ELSE /\ users' = users \cup {user}
          /\ Respond("create_user", "ok")
  /\ UNCHANGED <<laptop_status, laptops, allocations, organizations, blobs,
                 uuid_counter, pc, loc, others>>

\* ------------------------------------------------- Asset Registry handlers

\* repo_new_laptop: INSERT of a laptop row; the status_id foreign key is
\* checked by the store when the commit flushes the INSERT.
AddLaptop(s, status_id) ==
  /\ pc[s] = "idle"
  /\ NextLaptopId <= MaxLaptops
  /\ IF StatusIdExists(status_id)
     THEN /\ laptops' = (NextLaptopId :> [status_id |-> status_id]) @@ laptops
          /\ laptop_counter' = laptop_counter + 1
          /\ Respond("add_laptop", "ok")
     ELSE /\ UNCHANGED <<laptops, laptop_counter>>
          /\ Respond("add_laptop", "InternalError")
  /\ UNCHANGED <<laptop_status, users, allocations, organizations, blobs,
                 uuid_counter, pc, loc, superusers, procurements, audit_logs,
                 alloc_counter, url>>

\* Variant: the status of a laptop with an active allocation is not changed.
ChangeLaptopStatusGuarded(s, id, status_id) ==
  /\ pc[s] = "idle"
  /\ IF ~LaptopExists(id)
     THEN /\ UNCHANGED laptops
          /\ Respond("change_status", "NotFound")
     ELSE IF ~StatusIdExists(status_id)
     THEN /\ UNCHANGED laptops
          /\ Respond("change_status", "InternalError")
     ELSE IF ActiveAllocs(id) # {}
     THEN /\ UNCHANGED laptops
          /\ Respond("change_status", "Conflict")
     ELSE /\ laptops' = [laptops EXCEPT ![id].status_id = status_id]
          /\ Respond("change_status", "ok")
  /\ UNCHANGED <<laptop_status, users, others, allocations, organizations, blobs,
                 uuid_counter, pc, loc>>

\* repo_modify_laptop_status: 404 when the laptop is missing, otherwise the
\* requested status_id is written without looking at the current status or
\* at the ledger.  The select and the commit are adjacent round trips on one
\* row, so the handler is one step.
ChangeLaptopStatus(s, id, status_id) ==
  /\ pc[s] = "idle"
  /\ IF ~LaptopExists(id)
     THEN /\ UNCHANGED laptops
          /\ Respond("change_status", "NotFound")
     ELSE IF ~StatusIdExists(status_id)
     THEN /\ UNCHANGED laptops
          /\ Respond("change_status", "InternalError")
     ELSE /\ laptops' = [laptops EXCEPT ![id].status_id = status_id]
          /\ Respond("change_status", "ok")
  /\ UNCHANGED <<laptop_status, users, others, allocations, organizations, blobs,
                 uuid_counter, pc, loc>>

\* Variant: nothing in the store refers to a laptop (no foreign keys).
DeleteLaptopFlushOkUnreferenced(id) == TRUE

\* What the store checks when the commit of repo_delete_a_laptop flushes.
\* LaptopDetail.allocations declares no delete cascade, so the unit of work
\* first detaches the loaded allocations (UPDATE ... SET laptop_id = NULL),
\* which the NOT NULL column LaptopAllocation.laptop_id refuses; the DELETE
\* itself is refused by the foreign keys of is_laptopallocation and
\* is_laptopprocurement while a row still references the laptop.
DeleteLaptopFlushOk(id) ==
  /\ \A a \in DOMAIN allocations : allocations[a].laptop_id # id
  /\ \A p \in DOMAIN procurements : procurements[p].laptop_id # id

\* repo_delete_a_laptop: 404 when the laptop is missing; otherwise
\* db.delete(laptop) and db.commit().  A refused flush raises
\* IntegrityError (500) and the laptop stays.
DeleteLaptop(s, id) ==
  /\ pc[s] = "idle"
  /\ IF ~LaptopExists(id)
     THEN /\ UNCHANGED laptops
          /\ Respond("delete_laptop", "NotFound")
     ELSE IF ~DeleteLaptopFlushOk(id)
     THEN /\ UNCHANGED laptops
          /\ Respond("delete_laptop", "InternalError")
     ELSE /\ laptops' = [l \in DOMAIN laptops \ {id} |-> laptops[l]]
          /\ Respond("delete_laptop", "ok")
  /\ UNCHANGED <<laptop_status, users, others, allocations, organizations, blobs,
                 uuid_counter, pc, loc>>

\* ----------------------------------------------- Allocation Ledger: create

\* Variant: the status assignment is not part of the committed unit.
CreateLaptopWriteDropped(tbl, l) == tbl

\* The writes the commit of repo_create_allocation flushes to the laptop
\* table: the unit of work emits UPDATE is_laptopdetail SET status_id only
\* when the attribute's value differs from the value the session loaded.
CreateLaptopWrite(tbl, l) ==
  IF l.target # l.loaded_status
  THEN [tbl EXCEPT ![l.laptop_id].status_id = l.target]
  ELSE tbl

\* The INSERT the commit of repo_create_allocation flushes to the ledger.
CreateLedgerWrite(tbl, l) ==
  (NextAllocId :> NewAllocation(l.user_id, l.laptop_id, l.allocator_id)) @@ tbl

\* repo_create_allocation lines 23-43: db.add(new_allocation) (pending, not
\* flushed), select of the laptop, select of the "Allocated" status row, and
\* laptop.status_id = status_we_want.id.  Neither result is checked for
\* None, so a missing laptop or status row raises AttributeError, which the
\* framework answers with 500; the session is closed without commit.
BeginCreate(s, user_id, laptop_id, allocator_id) ==
  /\ pc[s] = "idle"
  /\ allocator_id \in users
  /\ NextAllocId + Cardinality({t \in Sessions : pc[t] = "create_commit"})
        <= MaxAllocs
  /\ IF ~LaptopExists(laptop_id) \/ StatusByName("Allocated") = None
     THEN /\ Respond("create", "InternalError")
          /\ UNCHANGED <<pc, loc>>
     ELSE /\ pc' = [pc EXCEPT ![s] = "create_commit"]
          /\ loc' = [loc EXCEPT ![s] =
                       [op |-> "create", user_id |-> user_id,
                        laptop_id |-> laptop_id, allocator_id |-> allocator_id,
                        loaded_status |-> laptops[laptop_id].status_id,
                        target |-> StatusByName("Allocated")]]
          /\ UNCHANGED response
  /\ UNCHANGED <<laptop_status, laptops, users, others, allocations, organizations,
                 blobs, uuid_counter>>

\* Variant: the store rejects a second active record for a laptop (a unique
\* partial index on laptop_id where is_active).
CreateFlushOkUniqueActive(l) ==
  /\ l.user_id \in users /\ l.allocator_id \in users /\ LaptopExists(l.laptop_id)
  /\ ActiveAllocs(l.laptop_id) = {}

\* The constraints the store checks when the commit of
\* repo_create_allocation flushes: the foreign keys user_id, allocated_by and
\* laptop_id of is_laptopallocation and the laptop row of the UPDATE.  The
\* table declares no uniqueness over (laptop_id, is_active).
CreateFlushOk(l) ==
  l.user_id \in users /\ l.allocator_id \in users /\ LaptopExists(l.laptop_id)

\* repo_create_allocation lines 45-52: two selects of users, then
\* db.commit(): INSERT of the allocation (foreign keys user_id, laptop_id,
\* allocated_by) and the UPDATE of the laptop, committed together.  A
\* violated foreign key raises IntegrityError: nothing is committed.
CreateCommit(s) ==
  /\ pc[s] = "create_commit"
  /\ LET l == loc[s] IN
     IF CreateFlushOk(l)
     THEN /\ allocations' = CreateLedgerWrite(allocations, l)
          /\ alloc_counter' = alloc_counter + 1
          /\ laptops' = CreateLaptopWrite(laptops, l)
          /\ pc' = [pc EXCEPT ![s] = "create_refresh"]
          /\ loc' = [loc EXCEPT ![s] = [op |-> "create", id |-> NextAllocId,
                                        laptop_id |-> l.laptop_id]]
          /\ UNCHANGED response
     ELSE /\ Respond("create", "InternalError")
          /\ pc' = [pc EXCEPT ![s] = "idle"]
          /\ loc' = [loc EXCEPT ![s] = IdleLoc]
          /\ UNCHANGED <<allocations, alloc_counter, laptops>>
  /\ UNCHANGED <<laptop_status, users, organizations, blobs, uuid_counter,
                 superusers, procurements, audit_logs, laptop_counter, url>>

\* repo_create_allocation lines 53-61: refresh of both rows, log line, and
\* the 201 response carrying the new record.
CreateRefresh(s) ==
  /\ pc[s] = "create_refresh"
  /\ IF AllocExists(loc[s].id) /\ LaptopExists(loc[s].laptop_id)
     THEN Respond("create", "ok")
     ELSE Respond("create", "InternalError")
  /\ pc' = [pc EXCEPT ![s] = "idle"]
  /\ loc' = [loc EXCEPT ![s] = IdleLoc]
  /\ UNCHANGED <<laptop_status, laptops, users, others, allocations, organizations,
                 blobs, uuid_counter>>

\* ----------------------------------------------- Allocation Ledger: return

ReturnColumns == {"return_date", "return_comment", "returned_by",
                  "condition_on_return", "is_active"}

\* The attribute values repo_return_laptop lines 131-135 assign.
ReturnValues(returned_laptop, allocator_id) ==
  [ return_date |-> returned_laptop.return_date,
    return_comment |-> returned_laptop.return_comment,
    returned_by |-> allocator_id,
    condition_on_return |-> returned_laptop.condition_on_return,
    is_active |-> FALSE ]

\* Variant: is_active is toggled (the idiom of repo_change_user_status)
\* instead of being set to False.
ReturnLedgerWriteToggle(tbl, l) ==
  [tbl EXCEPT ![l.id] =
     [c \in DOMAIN tbl[l.id] |->
        IF c = "is_active" THEN ~tbl[l.id].is_active
        ELSE IF c \in ReturnColumns /\ l.values[c] # l.loaded[c]
        THEN l.values[c] ELSE tbl[l.id][c]]]

\* UPDATE is_laptopallocation SET <changed columns> WHERE id = ...: the unit
\* of work writes the columns whose assigned value differs from the loaded
\* one and leaves the others as they are in the store.
ReturnLedgerWrite(tbl, l) ==
  [tbl EXCEPT ![l.id] =
     [c \in DOMAIN tbl[l.id] |->
        IF c \in ReturnColumns /\ l.values[c] # l.loaded[c]
        THEN l.values[c] ELSE tbl[l.id][c]]]

\* Variant: the return leaves the laptop row alone.
ReturnLaptopWriteDropped(tbl, l) == tbl

\* UPDATE is_laptopdetail SET status_id = <Available> of the laptop the
\* allocation references, when it differs from the loaded value.
ReturnLaptopWrite(tbl, l) ==
  IF l.target # l.loaded_status
  THEN [tbl EXCEPT ![l.laptop_id].status_id = l.target]
  ELSE tbl

\* repo_return_laptop lines 121-135: select of the allocation, 404 when it
\* is missing; otherwise the return fields and is_active = False are
\* assigned on the loaded object, whatever its current is_active.
BeginReturn(s, id, returned_laptop, allocator_id) ==
  /\ pc[s] = "idle"
  /\ allocator_id \in users
  /\ IF ~AllocExists(id)
     THEN /\ Respond("return", "NotFound")
          /\ UNCHANGED <<pc, loc>>
     ELSE /\ pc' = [pc EXCEPT ![s] = "return_select_laptop"]
          /\ loc' = [loc EXCEPT ![s] =
                       [op |-> "return", id |-> id,
                        laptop_id |-> allocations[id].laptop_id,
                        loaded |-> [c \in ReturnColumns |-> allocations[id][c]],
                        values |-> ReturnValues(returned_laptop, allocator_id)]]
          /\ UNCHANGED response
  /\ UNCHANGED <<laptop_status, laptops, users, others, allocations, organizations,
                 blobs, uuid_counter>>

\* repo_return_laptop lines 137-143: select of the laptop by
\* alloc.laptop_id, select of the "Available" status row,
\* laptop.status_id = status_we_want.id; a None result raises
\* AttributeError (500) and the session is rolled back.
ReturnSelectLaptop(s) ==
  /\ pc[s] = "return_select_laptop"
  /\ LET l == loc[s] IN
     IF ~LaptopExists(l.laptop_id) \/ StatusByName("Available") = None
     THEN /\ Respond("return", "InternalError")
          /\ pc' = [pc EXCEPT ![s] = "idle"]
          /\ loc' = [loc EXCEPT ![s] = IdleLoc]
     ELSE /\ pc' = [pc EXCEPT ![s] = "return_commit"]
          /\ loc' = [loc EXCEPT ![s] =
                       [op |-> "return", id |-> l.id, laptop_id |-> l.laptop_id,
                        loaded |-> l.loaded, values |-> l.values,
                        loaded_status |-> laptops[l.laptop_id].status_id,
                        target |-> StatusByName("Available")]]
          /\ UNCHANGED response
  /\ UNCHANGED <<laptop_status, laptops, users, others, allocations, organizations,
                 blobs, uuid_counter>>

\* repo_return_laptop lines 144-154: two selects of users, the log line and
\* db.commit(): both UPDATEs are flushed and committed together.  A row that
\* has disappeared makes the flush fail and nothing is committed.
ReturnCommit(s) ==
  /\ pc[s] = "return_commit"
  /\ LET l == loc[s] IN
     IF AllocExists(l.id) /\ LaptopExists(l.laptop_id) /\ l.values.returned_by \in users
     THEN /\ allocations' = ReturnLedgerWrite(allocations, l)
          /\ laptops' = ReturnLaptopWrite(laptops, l)
          /\ pc' = [pc EXCEPT ![s] = "return_refresh"]
          /\ loc' = [loc EXCEPT ![s] = [op |-> "return", id |-> l.id,
                                        laptop_id |-> l.laptop_id]]
          /\ UNCHANGED response
     ELSE /\ Respond("return", "InternalError")
          /\ pc' = [pc EXCEPT ![s] = "idle"]
          /\ loc' = [loc EXCEPT ![s] = IdleLoc]
          /\ UNCHANGED <<allocations, laptops>>
  /\ UNCHANGED <<laptop_status, users, others, organizations, blobs, uuid_counter>>

\* repo_return_laptop lines 155-157: refresh of both rows and the 202
\* response carrying the record.
ReturnRefresh(s) ==
  /\ pc[s] = "return_refresh"
  /\ IF AllocExists(loc[s].id) /\ LaptopExists(loc[s].laptop_id)
     THEN Respond("return", "ok")
     ELSE Respond("return", "InternalError")
  /\ pc' = [pc EXCEPT ![s] = "idle"]
  /\ loc' = [loc EXCEPT ![s] = IdleLoc]
  /\ UNCHANGED <<laptop_status, laptops, users, others, allocations, organizations,
                 blobs, uuid_counter>>

\* ------------------------------------------------------- Document Workflow

\* f"allocation_forms/{alloc_id}/{uuid.uuid4()}_{file.filename}" and
\* f"return_forms/...": the object name is the kind, the record id and a
\* fresh uuid4 suffix (the n-th suffix drawn); the file name is fixed.
ObjectName(kind, alloc_id, n) == <<kind, alloc_id, n>>

\* api_upload_allocation_form lines 331-345 and api_upload_return_form lines
\* 391-405: the object name is computed and the bytes are written to the
\* bucket before the allocation is looked at; a blob-store exception is
\* answered with 500 "Upload failed" and the repository is not called.
PutObject(s, kind, alloc_id, stored) ==
  /\ pc[s] = "idle"
  /\ uuid_counter + Cardinality({t \in Sessions : pc[t] = "po_put"}) < MaxUploads
  /\ uuid_counter' = uuid_counter + 1
  /\ IF stored
     THEN /\ blobs' = blobs \cup {ObjectName(kind, alloc_id, uuid_counter + 1)}
          /\ pc' = [pc EXCEPT ![s] = "upload_select"]
          /\ loc' = [loc EXCEPT ![s] =
                       [op |-> kind, id |-> alloc_id,
                        object_name |-> ObjectName(kind, alloc_id, uuid_counter + 1)]]
          /\ UNCHANGED response
     ELSE /\ Respond(kind, "UploadFailed")
          /\ UNCHANGED <<blobs, pc, loc>>
  /\ UNCHANGED <<laptop_status, laptops, users, others, allocations, organizations>>

\* Variant: the allocation-form upload assigns the return_form column.
UploadFormWriteReturnColumn(tbl, id, object_name) ==
  [tbl EXCEPT ![id].return_form = object_name]

\* Variant: the first form uploaded stays; later uploads are not stored.
UploadFormWriteKeepFirst(tbl, id, object_name) ==
  IF tbl[id].allocation_form = NoKey
  THEN [tbl EXCEPT ![id].allocation_form = object_name]
  ELSE tbl

\* repo_upload_form line 173: allocation.allocation_form = object_name; the
\* commit writes that one column of the row.
UploadFormWrite(tbl, id, object_name) ==
  [tbl EXCEPT ![id].allocation_form = object_name]

\* Variant: no guard on is_active.
UploadReturnFormUnguarded(row) == FALSE

\* repo_upload_return_form lines 227-231: the is_active guard (403).
UploadReturnFormGuard(row) == row.is_active

\* Variant: storing the return form marks the allocation active again.
UploadReturnFormWriteReactivating(tbl, id, object_name) ==
  [tbl EXCEPT ![id].return_form = object_name, ![id].is_active = TRUE]

\* repo_upload_return_form line 233: allocation.return_form = object_name.
UploadReturnFormWrite(tbl, id, object_name) ==
  [tbl EXCEPT ![id].return_form = object_name]

\* repo_upload_form lines 163-173 and repo_upload_return_form lines 217-233,
\* called by the route after the blob write: select of the allocation, 404
\* when it is missing, 403 for a return form on an active allocation.
RepoUploadSelect(s) ==
  /\ pc[s] = "upload_select"
  /\ IF ~AllocExists(loc[s].id)
     THEN /\ Respond(loc[s].op, "NotFound")
          /\ pc' = [pc EXCEPT ![s] = "idle"]
          /\ loc' = [loc EXCEPT ![s] = IdleLoc]
     ELSE IF loc[s].op = "return_forms" /\ UploadReturnFormGuard(allocations[loc[s].id])
     THEN /\ Respond(loc[s].op, "Forbidden")
          /\ pc' = [pc EXCEPT ![s] = "idle"]
          /\ loc' = [loc EXCEPT ![s] = IdleLoc]
     ELSE /\ pc' = [pc EXCEPT ![s] = "upload_commit"]
          /\ UNCHANGED <<loc, response>>
  /\ UNCHANGED <<laptop_status, laptops, users, others, allocations, organizations,
                 blobs, uuid_counter>>

\* repo_upload_form lines 175-180 and repo_upload_return_form lines 235-240:
\* db.commit() flushes the UPDATE of the document-key column, then the row
\* is refreshed and the route answers with the stored object name.  The
\* flush fails when the row has disappeared.
RepoUploadCommit(s) ==
  /\ pc[s] = "upload_commit"
  /\ IF ~AllocExists(loc[s].id)
     THEN /\ Respond(loc[s].op, "InternalError")
          /\ UNCHANGED allocations
     ELSE /\ allocations' =
               IF loc[s].op = "return_forms"
               THEN UploadReturnFormWrite(allocations, loc[s].id, loc[s].object_name)
               ELSE UploadFormWrite(allocations, loc[s].id, loc[s].object_name)
          /\ Respond(loc[s].op, "ok")
  /\ pc' = [pc EXCEPT ![s] = "idle"]
  /\ loc' = [loc EXCEPT ![s] = IdleLoc]
  /\ UNCHANGED <<laptop_status, laptops, users, others, organizations, blobs, uuid_counter>>

\* repo_create_allocation_form: renders the allocation form and looks up the
\* allocating user for the log line.
CreateAllocationForm(row) ==
  IF row.allocated_by \in users THEN "ok" ELSE "InternalError"

\* repo_create_return_form: the precedence guard on allocation_form (403),
\* then generate_allocation_form is called with the return payload, which
\* has no 'allocation_date' key: the renderer (form_pdf_generator.py:113)
\* raises KeyError, so no return form is ever rendered.
CreateReturnForm(row) ==
  IF row.allocation_form = NoKey THEN "PrecedenceViolation" ELSE "InternalError"

\* api_generate_form: organisation name (first row of the organisation
\* table, dereferenced without a None check), the allocation (404 when
\* missing), then the renderer chosen by form_type; nothing is written.
GenerateForm(s, allocation_id, form_type) ==
  /\ pc[s] = "idle"
  /\ Respond("generate_" \o form_type,
       IF organizations = 0 THEN "InternalError"
       ELSE IF ~AllocExists(allocation_id) THEN "NotFound"
       ELSE IF form_type = "allocation"
            THEN CreateAllocationForm(allocations[allocation_id])
       ELSE IF form_type = "return"
            THEN CreateReturnForm(allocations[allocation_id])
       ELSE "NotAcceptable")
  /\ UNCHANGED <<laptop_status, laptops, users, others, allocations, organizations,
                 blobs, uuid_counter, pc, loc>>

\* repo_add_organization: INSERT of an organisation row.
AddOrganization(s) ==
  /\ pc[s] = "idle"
  /\ organizations < MaxOrgs
  /\ organizations' = organizations + 1
  /\ Respond("add_organization", "ok")
  /\ UNCHANGED <<laptop_status, laptops, users, others, allocations, blobs,
                 uuid_counter, pc, loc>>

\* ------------------------------------------------------ Procurement Ledger

\* uuid.uuid4() passed as record_id of an audit entry: a key that no stored
\* record has.
FreshUuid == -1

\* AuditLogs(user_id, action, table_name, record_id, details): the columns
\* that identify the actor and the subject; details is free text.
AuditEntry(user_id, action, table_name, record_id) ==
  [user_id |-> user_id, action |-> action, table_name |-> table_name,
   record_id |-> record_id]

\* Variant: the entry takes the place of the newest row of the log.
RecordAuditOverwrite(log, entry) ==
  IF log = << >> THEN <<entry>> ELSE [log EXCEPT ![Len(log)] = entry]

\* db.add(new_audit_entry) followed by db.commit(): INSERT of one row into
\* is_auditlogs (integer primary key in insertion order).
RecordAudit(log, entry) == Append(log, entry)

\* Room for one more audit row, counting the purchase-order uploads that
\* are under way and will write theirs.
AuditRoom ==
  Len(audit_logs)
    + Cardinality({t \in Sessions : pc[t] \in {"po_put", "po_commit"}}) < MaxAudit

ProcurementExists(p) == p \in DOMAIN procurements

\* Variant: a laptop takes one procurement record; a second one is refused.
CreatePurchaseOncePerLaptop(s, admin, laptop_id) ==
  /\ pc[s] = "idle"
  /\ admin \in users
  /\ Len(procurements) < MaxPurchases
  /\ AuditRoom
  /\ IF ~LaptopExists(laptop_id)
     THEN /\ Respond("create_purchase", "InternalError")
          /\ UNCHANGED <<procurements, audit_logs>>
     ELSE IF \E p \in DOMAIN procurements : procurements[p].laptop_id = laptop_id
     THEN /\ Respond("create_purchase", "Conflict")
          /\ UNCHANGED <<procurements, audit_logs>>
     ELSE /\ procurements' =
               Append(procurements,
                      [laptop_id |-> laptop_id, purchase_order_file |-> NoKey])
          /\ audit_logs' =
               RecordAudit(audit_logs,
                 AuditEntry(admin, "Added laptop to procurement table",
                            "is_laptopprocurement", FreshUuid))
          /\ Respond("create_purchase", "ok")
  /\ UNCHANGED <<laptop_status, laptops, users, allocations, organizations,
                 blobs, uuid_counter, pc, loc, superusers, laptop_counter,
                 alloc_counter, url>>

\* repo_new_laptop_purchase: db.add(new_purchase), select of the laptop,
\* the audit entry (its details dereference the laptop without a None
\* check: AttributeError, 500, for a missing laptop; its record_id is a
\* fresh uuid4), and one db.commit() for both rows.
CreatePurchase(s, admin, laptop_id) ==
  /\ pc[s] = "idle"
  /\ admin \in users
  /\ Len(procurements) < MaxPurchases
  /\ AuditRoom
  /\ IF ~LaptopExists(laptop_id)
     THEN /\ Respond("create_purchase", "InternalError")
          /\ UNCHANGED <<procurements, audit_logs>>
     ELSE /\ procurements' =
               Append(procurements,
                      [laptop_id |-> laptop_id, purchase_order_file |-> NoKey])
          /\ audit_logs' =
               RecordAudit(audit_logs,
                 AuditEntry(admin, "Added laptop to procurement table",
                            "is_laptopprocurement", FreshUuid))
          /\ Respond("create_purchase", "ok")
  /\ UNCHANGED <<laptop_status, laptops, users, allocations, organizations,
                 blobs, uuid_counter, pc, loc, superusers, laptop_counter,
                 alloc_counter, url>>

\* api_upload_purchase_order line 120, repo_quiet_search: the record is
\* looked up before anything is written; a missing record is audited
\* (db.add and db.commit) and answered with 404.
QuietSearch(s, admin, record_id) ==
  /\ pc[s] = "idle"
  /\ admin \in users
  /\ AuditRoom
  /\ uuid_counter + Cardinality({t \in Sessions : pc[t] = "po_put"}) < MaxUploads
  /\ IF ~ProcurementExists(record_id)
     THEN /\ audit_logs' =
               RecordAudit(audit_logs,
                 AuditEntry(admin, "Record Search", "is_laptopprocuurement",
                            record_id))
          /\ Respond("upload_po", "NotFound")
          /\ UNCHANGED <<pc, loc>>
     ELSE /\ pc' = [pc EXCEPT ![s] = "po_put"]
          /\ loc' = [loc EXCEPT ![s] =
                       [op |-> "purchase_orders", id |-> record_id,
                        admin |-> admin]]
          /\ UNCHANGED <<audit_logs, response>>
  /\ UNCHANGED <<laptop_status, laptops, users, allocations, organizations,
                 blobs, uuid_counter, superusers, procurements, laptop_counter,
                 alloc_counter, url>>

\* Variant: a failed blob write is swallowed and the key is stored anyway.
PoPutObjectSwallowed(s, stored) ==
  /\ pc[s] = "po_put"
  /\ uuid_counter' = uuid_counter + 1
  /\ blobs' = IF stored
              THEN blobs \cup {ObjectName("purchase_orders", loc[s].id, uuid_counter + 1)}
              ELSE blobs
  /\ pc' = [pc EXCEPT ![s] = "po_commit"]
  /\ loc' = [loc EXCEPT ![s] =
               [op |-> "purchase_orders", id |-> loc[s].id, admin |-> loc[s].admin,
                object_name |->
                  ObjectName("purchase_orders", loc[s].id, uuid_counter + 1)]]
  /\ UNCHANGED <<laptop_status, laptops, users, allocations, organizations,
                 response, others>>

\* api_upload_purchase_order lines 121-135: the object name
\* f"purchase_orders/{record_id}/{uuid.uuid4()}_{file.filename}" and the
\* blob write; a blob-store exception is answered with 500 "Upload Failed".
PoPutObject(s, stored) ==
  /\ pc[s] = "po_put"
  /\ uuid_counter' = uuid_counter + 1
  /\ IF stored
     THEN /\ blobs' = blobs \cup
                        {ObjectName("purchase_orders", loc[s].id, uuid_counter + 1)}
          /\ pc' = [pc EXCEPT ![s] = "po_commit"]
          /\ loc' = [loc EXCEPT ![s] =
                       [op |-> "purchase_orders", id |-> loc[s].id,
                        admin |-> loc[s].admin,
                        object_name |->
                          ObjectName("purchase_orders", loc[s].id, uuid_counter + 1)]]
          /\ UNCHANGED response
     ELSE /\ Respond("upload_po", "UploadFailed")
          /\ pc' = [pc EXCEPT ![s] = "idle"]
          /\ loc' = [loc EXCEPT ![s] = IdleLoc]
          /\ UNCHANGED blobs
  /\ UNCHANGED <<laptop_status, laptops, users, allocations, organizations,
                 others>>

\* repo_upload_purchase_order: select of the record (404 when missing),
\* record.purchase_order_file = object_name, the "File Upload" audit entry,
\* and one db.commit() for the UPDATE and the INSERT.
PoCommit(s) ==
  /\ pc[s] = "po_commit"
  /\ IF ~ProcurementExists(loc[s].id)
     THEN /\ Respond("upload_po", "NotFound")
          /\ UNCHANGED <<procurements, audit_logs>>
     ELSE /\ procurements' =
               [procurements EXCEPT
                  ![loc[s].id].purchase_order_file = loc[s].object_name]
          /\ audit_logs' =
               RecordAudit(audit_logs,
                 AuditEntry(loc[s].admin, "File Upload", "is_laptopallocation",
                            loc[s].id))
          /\ Respond("upload_po", "ok")
  /\ pc' = [pc EXCEPT ![s] = "idle"]
  /\ loc' = [loc EXCEPT ![s] = IdleLoc]
  /\ UNCHANGED <<laptop_status, laptops, users, allocations, organizations,
                 blobs, uuid_counter, superusers, laptop_counter,
                 alloc_counter, url>>

\* repo_download_PO: 404 for a missing record and for a record without
\* purchase-order file, neither audited; otherwise the presigned URL, the
\* "File Download" audit entry and db.commit().
DownloadPO(s, admin, record_id) ==
  /\ pc[s] = "idle"
  /\ admin \in users
  /\ AuditRoom
  /\ IF ~ProcurementExists(record_id)
     THEN /\ Respond("download_po", "NotFound")
          /\ UNCHANGED audit_logs
     ELSE IF procurements[record_id].purchase_order_file = NoKey
     THEN /\ Respond("download_po", "NotFound")
          /\ UNCHANGED audit_logs
     ELSE /\ audit_logs' =
               RecordAudit(audit_logs,
                 AuditEntry(admin, "File Download", "is_laptopprocurement",
                            record_id))
          /\ Respond("download_po", "ok")
  /\ UNCHANGED <<laptop_status, laptops, users, allocations, organizations,
                 blobs, uuid_counter, pc, loc, superusers, procurements,
                 laptop_counter,
                 alloc_counter, url>>

\* repo_get_a_record: for a missing record the audit entry is added to the
\* session and HTTPException(404) is raised before any commit, so the
\* session is rolled back and the entry is lost; for an existing record
\* the "Record Search" entry is committed.
GetRecord(s, admin, record_id) ==
  /\ pc[s] = "idle"
  /\ admin \in users
  /\ AuditRoom
  /\ IF ~ProcurementExists(record_id)
     THEN /\ Respond("get_record", "NotFound")
          /\ UNCHANGED audit_logs
     ELSE /\ audit_logs' =
               RecordAudit(audit_logs,
                 AuditEntry(admin, "Record Search", "is_laptopprocuurement",
                            record_id))
          /\ Respond("get_record", "ok")
  /\ UNCHANGED <<laptop_status, laptops, users, allocations, organizations,
                 blobs, uuid_counter, pc, loc, superusers, procurements,
                 laptop_counter,
                 alloc_counter, url>>

\* Variant: the search leaves no audit entry.
SearchRecordsAuditSkipped(log, admin) == log

\* repo_get_records lines 197-206: the "Record Search" entry of a list
\* query, with a fresh uuid4 as record_id.
SearchRecordsAudit(log, admin) ==
  RecordAudit(log, AuditEntry(admin, "Record Search", "is laptopprocurement",
                              FreshUuid))

\* repo_get_records: the filtered select, the audit entry and db.commit().
SearchRecords(s, admin) ==
  /\ pc[s] = "idle"
  /\ admin \in users
  /\ AuditRoom
  /\ audit_logs' = SearchRecordsAudit(audit_logs, admin)
  /\ Respond("search_records", "ok")
  /\ UNCHANGED <<laptop_status, laptops, users, allocations, organizations,
                 blobs, uuid_counter, pc, loc, superusers, procurements,
                 laptop_counter,
                 alloc_counter, url>>

\* ------------------------------------------------- Document Workflow: download

\* minio_client.presigned_get_object(BUCKET_NAME, key, expires=1 h): a URL
\* that names the object key it was signed for.
PresignedUrl(key) == <<"presigned", key>>

\* Variant: each download reads the column of the other form.
DocumentKeySwapped(row, kind) ==
  IF kind = "allocation_forms" THEN row.return_form ELSE row.allocation_form

\* The column a download reads: allocation.allocation_form in
\* repo_download_form, allocation.return_form in repo_download_return_form.
DocumentKey(row, kind) ==
  IF kind = "allocation_forms" THEN row.allocation_form ELSE row.return_form

DownloadOp(kind) ==
  IF kind = "allocation_forms" THEN "download_allocation_form"
                               ELSE "download_return_form"

\* Variant: the download is audited as a purchase-order download is.
DownloadFormAudited(s, kind, id, admin) ==
  /\ pc[s] = "idle"
  /\ admin \in users
  /\ AuditRoom
  /\ IF ~AllocExists(id)
     THEN Respond(DownloadOp(kind), "NotFound") /\ UNCHANGED <<url, audit_logs>>
     ELSE IF DocumentKey(allocations[id], kind) = NoKey
     THEN Respond(DownloadOp(kind), "NotFound") /\ UNCHANGED <<url, audit_logs>>
     ELSE /\ url' = PresignedUrl(DocumentKey(allocations[id], kind))
          /\ audit_logs' =
               RecordAudit(audit_logs,
                 AuditEntry(admin, "File Download", "is_laptopallocation", id))
          /\ Respond(DownloadOp(kind), "ok")
  /\ UNCHANGED <<laptop_status, laptops, users, allocations, organizations,
                 blobs, uuid_counter, pc, loc, superusers, procurements,
                 laptop_counter, alloc_counter>>

\* repo_download_form and repo_download_return_form: select of the
\* allocation, 404 when it is missing, 404 when the form column is empty,
\* otherwise the presigned URL of the stored key and a log line; nothing
\* is added to the session and nothing is committed.
DownloadForm(s, kind, id, admin) ==
  /\ pc[s] = "idle"
  /\ admin \in users
  /\ IF ~AllocExists(id)
     THEN Respond(DownloadOp(kind), "NotFound") /\ UNCHANGED url
     ELSE IF DocumentKey(allocations[id], kind) = NoKey
     THEN Respond(DownloadOp(kind), "NotFound") /\ UNCHANGED url
     ELSE /\ url' = PresignedUrl(DocumentKey(allocations[id], kind))
          /\ Respond(DownloadOp(kind), "ok")
  /\ UNCHANGED <<laptop_status, laptops, users, allocations, organizations,
                 blobs, uuid_counter, pc, loc, superusers, procurements,
                 audit_logs, laptop_counter, alloc_counter>>

\* ------------------------------------------------------------ user deletion

\* Variant: the cascade spares the records that are still active.
DeleteUserCascadeSparingActive(tbl, user) ==
  [a \in {x \in DOMAIN tbl : tbl[x].user_id # user \/ tbl[x].is_active} |-> tbl[a]]

\* User.allocations (foreign_keys = [LaptopAllocation.user_id], cascade
\* "all, delete-orphan"): db.delete(user) deletes the allocation rows whose
\* user_id is the user, whatever their is_active.
DeleteUserCascade(tbl, user) ==
  [a \in {x \in DOMAIN tbl : tbl[x].user_id # user} |-> tbl[a]]

\* The constraints the store checks when the DELETE of the user row is
\* flushed: the foreign keys allocated_by and returned_by of the allocation
\* rows that stay, and user_id of is_auditlogs, none of which has a cascade.
DeleteUserFlushOk(user) ==
  /\ \A a \in DOMAIN allocations :
       allocations[a].user_id # user
         => allocations[a].allocated_by # user /\ allocations[a].returned_by # user
  /\ \A i \in DOMAIN audit_logs : audit_logs[i].user_id # user

\* api_delete_a_user and repo_delete_a_user: a caller who is not a
\* superuser is answered 401 by repo_report_unauthorized_access, which
\* writes a log line and nothing else; a missing user is answered 404;
\* otherwise db.delete(user) and db.commit() remove the user row and, by
\* cascade, the allocation rows the user holds.  No laptop row is touched.
\* A violated foreign key raises IntegrityError: nothing is committed.
DeleteUser(s, admin, user) ==
  /\ pc[s] = "idle"
  /\ admin \in users
  /\ IF admin \notin superusers
     THEN /\ Respond("delete_user", "Unauthorized")
          /\ UNCHANGED <<users, superusers, allocations>>
     ELSE IF user \notin users
     THEN /\ Respond("delete_user", "NotFound")
          /\ UNCHANGED <<users, superusers, allocations>>
     ELSE IF ~DeleteUserFlushOk(user)
     THEN /\ Respond("delete_user", "InternalError")
          /\ UNCHANGED <<users, superusers, allocations>>
     ELSE /\ users' = users \ {user}
          /\ superusers' = superusers \ {user}
          /\ allocations' = DeleteUserCascade(allocations, user)
          /\ Respond("delete_user", "ok")
  /\ UNCHANGED <<laptop_status, laptops, organizations, blobs, uuid_counter,
                 pc, loc, procurements, audit_logs, laptop_counter,
                 alloc_counter, url>>

\* ------------------------------------------------------------------- Next
\* Inputs of the requests.  The handlers distinguish the statuses named
\* "Available" and "Allocated" only; "Retired" stands for the others.
StatusInputs == {1, 2, 4}

FormKinds == {"allocation_forms", "return_forms"}

FormTypes == {"allocation", "return"}

LedgerStep(s, returns) ==
  \/ \E u \in UserIds, l \in LaptopIds, a \in users : BeginCreate(s, u, l, a)
  \/ CreateCommit(s)
  \/ CreateRefresh(s)
  \/ \E id \in AllocIds, r \in returns, a \in users : BeginReturn(s, id, r, a)
  \/ ReturnSelectLaptop(s)
  \/ ReturnCommit(s)
  \/ ReturnRefresh(s)

Next ==
  \/ \E s \in Sessions, st \in StatusInputs : AddLaptop(s, st)
  \/ \E s \in Sessions, l \in LaptopIds, st \in StatusInputs :
        ChangeLaptopStatus(s, l, st)
  \/ \E s \in Sessions : LedgerStep(s, {FirstReturn})
  \/ \E s \in Sessions, k \in FormKinds, id \in AllocIds, stored \in BOOLEAN :
        PutObject(s, k, id, stored)
  \/ \E s \in Sessions : RepoUploadSelect(s)
  \/ \E s \in Sessions : RepoUploadCommit(s)
  \/ \E s \in Sessions, id \in AllocIds, ft \in FormTypes : GenerateForm(s, id, ft)
  \/ \E s \in Sessions : AddOrganization(s)

Spec == Init /\ [][Next]_vars

\* The ledger alone: every laptop registered and Available, no allocation
\* yet, and only CreateAllocation and ReturnLaptop requests.
InitLedger ==
  /\ laptop_status = SeededStatuses
  /\ laptops = [l \in LaptopIds |-> [status_id |-> 1]]
  /\ users = {1}
  /\ allocations = << >>
  /\ organizations = 0
  /\ blobs = {}
  /\ uuid_counter = 0
  /\ pc = [s \in Sessions |-> "idle"]
  /\ loc = [s \in Sessions |-> IdleLoc]
  /\ response = [op |-> "none", status |-> "none"]
  /\ superusers = {1}
  /\ procurements = << >>
  /\ audit_logs = << >>
  /\ laptop_counter = MaxLaptops
  /\ alloc_counter = 0
  /\ url = NoKey

NextLedger == \E s \in Sessions : LedgerStep(s, ReturnInputs)

SpecLedger == InitLedger /\ [][NextLedger]_vars

\* The Asset Registry beside the ledger: a fresh database, laptops added,
\* re-labelled and deleted while allocations are created and returned.
NextRegistry ==
  \/ \E s \in Sessions, st \in StatusInputs : AddLaptop(s, st)
  \/ \E s \in Sessions, l \in LaptopIds, st \in StatusInputs :
        ChangeLaptopStatus(s, l, st)
  \/ \E s \in Sessions, l \in LaptopIds : DeleteLaptop(s, l)
  \/ \E s \in Sessions : LedgerStep(s, {FirstReturn})

SpecRegistry == Init /\ [][NextRegistry]_vars

\* The ledger with several actors: the seeded administrator creates users,
\* and every authenticated user may send CreateAllocation and ReturnLaptop.
NextAccess ==
  \/ \E s \in Sessions, a \in users, u \in UserIds : CreateUser(s, a, u)
  \/ \E s \in Sessions : LedgerStep(s, {FirstReturn})

SpecAccess == InitLedger /\ [][NextAccess]_vars

\* One client working through the allocation, return and return-form steps
\* one request after the other; no allocation form is ever uploaded.
ScenarioClient == "s1"

NextScenario ==
  \/ LedgerStep(ScenarioClient, {FirstReturn})
  \/ \E id \in AllocIds, stored \in BOOLEAN :
        PutObject(ScenarioClient, "return_forms", id, stored)
  \/ RepoUploadSelect(ScenarioClient)
  \/ RepoUploadCommit(ScenarioClient)
  \/ \E id \in AllocIds : GenerateForm(ScenarioClient, id, "return")
  \/ AddOrganization(ScenarioClient)

SpecScenario == InitLedger /\ [][NextScenario]_vars

\* Record ids sent with procurement requests: the stored ones and one more.
PurchaseIds == 1..(MaxPurchases + 1)

\* Laptop ids sent with CreatePurchase: the registered ones and one more.
PurchaseLaptopIds == 1..(MaxLaptops + 1)

\* The steps of an UploadPurchaseOrder request.
PurchaseOrderStep(s) ==
  \/ \E a \in users, p \in PurchaseIds : QuietSearch(s, a, p)
  \/ \E stored \in BOOLEAN : PoPutObject(s, stored)
  \/ PoCommit(s)

\* The Procurement Ledger: every laptop registered, no purchase recorded.
NextProcurement ==
  \/ \E s \in Sessions, a \in users, l \in PurchaseLaptopIds :
        CreatePurchase(s, a, l)
  \/ \E s \in Sessions : PurchaseOrderStep(s)
  \/ \E s \in Sessions, a \in users, p \in PurchaseIds : DownloadPO(s, a, p)
  \/ \E s \in Sessions, a \in users, p \in PurchaseIds : GetRecord(s, a, p)
  \/ \E s \in Sessions, a \in users : SearchRecords(s, a)

SpecProcurement == InitLedger /\ [][NextProcurement]_vars

\* An allocation that was created and then returned: the row after
\* repo_return_laptop's commit.
ReturnedAllocation(user_id, laptop_id, allocator_id, returned_laptop) ==
  [NewAllocation(user_id, laptop_id, allocator_id) EXCEPT
     !.is_active = FALSE,
     !.return_date = returned_laptop.return_date,
     !.return_comment = returned_laptop.return_comment,
     !.condition_on_return = returned_laptop.condition_on_return,
     !.returned_by = allocator_id]

\* The object name of a form stored by an upload made before the ones
\* under observation.
EarlierForm(id) == ObjectName("allocation_forms", id, 0)

\* Document uploads: every laptop has one allocation record, active or
\* returned, with or without an allocation form uploaded earlier, and the
\* purchase of the first laptop is recorded (with its audit entry) without
\* purchase-order file.
InitUploads ==
  /\ laptop_status = SeededStatuses
  /\ users = {1}
  /\ superusers = {1}
  /\ \E returned \in SUBSET LaptopIds, formed \in SUBSET LaptopIds :
       /\ laptops =
            [l \in LaptopIds |->
               [status_id |-> IF l \in returned THEN StatusByName("Available")
                                               ELSE StatusByName("Allocated")]]
       /\ allocations =
            [l \in LaptopIds |->
               [(IF l \in returned THEN ReturnedAllocation(1, l, 1, FirstReturn)
                                   ELSE NewAllocation(1, l, 1))
                  EXCEPT !.allocation_form =
                           IF l \in formed THEN EarlierForm(l) ELSE NoKey]]
       /\ blobs = {EarlierForm(l) : l \in formed}
  /\ organizations = 0
  /\ uuid_counter = 0
  /\ pc = [s \in Sessions |-> "idle"]
  /\ loc = [s \in Sessions |-> IdleLoc]
  /\ response = [op |-> "none", status |-> "none"]
  /\ procurements = <<[laptop_id |-> 1, purchase_order_file |-> NoKey]>>
  /\ audit_logs =
       <<AuditEntry(1, "Added laptop to procurement table",
                    "is_laptopprocurement", FreshUuid)>>
  /\ laptop_counter = MaxLaptops
  /\ alloc_counter = MaxLaptops
  /\ url = NoKey

NextUploads ==
  \/ \E s \in Sessions, k \in FormKinds, id \in AllocIds, stored \in BOOLEAN :
        PutObject(s, k, id, stored)
  \/ \E s \in Sessions : RepoUploadSelect(s)
  \/ \E s \in Sessions : RepoUploadCommit(s)
  \/ \E s \in Sessions : PurchaseOrderStep(s)

SpecUploads == InitUploads /\ [][NextUploads]_vars

\* The Document Workflow on existing allocation records: uploads,
\* downloads and form generation.
NextDocuments ==
  \/ \E s \in Sessions, k \in FormKinds, id \in AllocIds, stored \in BOOLEAN :
        PutObject(s, k, id, stored)
  \/ \E s \in Sessions : RepoUploadSelect(s)
  \/ \E s \in Sessions : RepoUploadCommit(s)
  \/ \E s \in Sessions, k \in FormKinds, id \in AllocIds, a \in users :
        DownloadForm(s, k, id, a)
  \/ \E s \in Sessions, id \in AllocIds, ft \in FormTypes : GenerateForm(s, id, ft)
  \/ \E s \in Sessions : AddOrganization(s)

SpecDocuments == InitUploads /\ [][NextDocuments]_vars

\* User management next to the ledger: every user id is registered, the
\* first one is the seeded administrator, and every laptop has one
\* allocation record, made by the administrator, held by any user, active
\* or returned, with the laptop's status in agreement.
InitHolders ==
  /\ laptop_status = SeededStatuses
  /\ users = UserIds
  /\ superusers = {1}
  /\ \E returned \in SUBSET LaptopIds, holder \in [LaptopIds -> UserIds] :
       /\ laptops =
            [l \in LaptopIds |->
               [status_id |-> IF l \in returned THEN StatusByName("Available")
                                               ELSE StatusByName("Allocated")]]
       /\ allocations =
            [l \in LaptopIds |->
               IF l \in returned THEN ReturnedAllocation(holder[l], l, 1, FirstReturn)
                                 ELSE NewAllocation(holder[l], l, 1)]
  /\ organizations = 0
  /\ blobs = {}
  /\ uuid_counter = 0
  /\ pc = [s \in Sessions |-> "idle"]
  /\ loc = [s \in Sessions |-> IdleLoc]
  /\ response = [op |-> "none", status |-> "none"]
  /\ procurements = << >>
  /\ audit_logs = << >>
  /\ laptop_counter = MaxLaptops
  /\ alloc_counter = MaxLaptops
  /\ url = NoKey

NextUsers ==
  \/ \E s \in Sessions, a \in users, u \in UserIds : DeleteUser(s, a, u)
  \/ \E s \in Sessions, a \in users, u \in UserIds : CreateUser(s, a, u)
  \/ \E s \in Sessions, id \in AllocIds, a \in users :
        BeginReturn(s, id, FirstReturn, a)
  \/ \E s \in Sessions : ReturnSelectLaptop(s) \/ ReturnCommit(s) \/ ReturnRefresh(s)

SpecUsers == InitHolders /\ [][NextUsers]_vars

\* The allocation side of the system, ledger and documents, next to an
\* audit log that already holds the entry of a recorded purchase.
NextAllocationSide ==
  \/ \E s \in Sessions : LedgerStep(s, {FirstReturn})
  \/ NextDocuments

SpecAllocationSide == InitUploads /\ [][NextAllocationSide]_vars

\* The Procurement Ledger next to a ledger in use: every laptop has an
\* allocation record, active or returned, and the first laptop has a
\* purchase on record.
SpecPurchases == InitUploads /\ [][NextProcurement]_vars

\* ============================================================ properties

Quiescent == \A s \in Sessions : pc[s] = "idle"

ActiveIn(tbl, l) == {a \in DOMAIN tbl : tbl[a].laptop_id = l /\ tbl[a].is_active}

\* C1 -- after every successful CreateAllocation or ReturnLaptop, in a run
\* made of such calls only, every laptop has the status "Allocated" exactly
\* when an active allocation record references it.
C1_StatusLedgerAgreement ==
  (Quiescent /\ response.op \in {"create", "return"} /\ response.status = "ok")
    => \A l \in DOMAIN laptops : IsLaptopAllocated(l) <=> ActiveAllocs(l) # {}

\* C2 -- in every reachable state every laptop has at most one allocation
\* record with is_active = true.
C2_AtMostOneActive ==
  \A l \in LaptopIds : Cardinality(ActiveAllocs(l)) <= 1

\* C3 -- nothing stops a CreateAllocation at its commit: whenever the
\* laptop and the users it names exist, the commit succeeds and adds one
\* more active record for that laptop, however many active records the
\* laptop already has and whatever other requests are in flight.
C3_ConcurrentCreatesBothSucceed ==
  [][\A s \in Sessions :
       ( /\ pc[s] = "create_commit"
         /\ pc'[s] # "create_commit"
         /\ LaptopExists(loc[s].laptop_id)
         /\ loc[s].user_id \in users
         /\ loc[s].allocator_id \in users )
       => /\ pc'[s] = "create_refresh"
          /\ Cardinality(ActiveIn(allocations', loc[s].laptop_id))
               = Cardinality(ActiveIn(allocations, loc[s].laptop_id)) + 1
    ]_vars

\* Two CreateAllocation requests on one laptop are in flight together, both
\* have committed, and the laptop has their two active records.
C3_TwoConcurrentCreatesCommitted ==
  \E s1 \in Sessions, s2 \in Sessions :
    /\ s1 # s2
    /\ pc[s1] = "create_refresh" /\ pc[s2] = "create_refresh"
    /\ loc[s1].laptop_id = loc[s2].laptop_id
    /\ {loc[s1].id, loc[s2].id} \subseteq ActiveAllocs(loc[s1].laptop_id)

\* C4 -- no step sets is_active of an existing record back to true, and a
\* successful CreateAllocation commit adds one record and leaves every
\* existing record as it is.
C4_ReturnIsTerminal ==
  [][ /\ \A a \in DOMAIN allocations \cap DOMAIN allocations' :
            ~allocations[a].is_active => ~allocations'[a].is_active
      /\ \A s \in Sessions :
            (pc[s] = "create_commit" /\ pc'[s] = "create_refresh")
            => /\ Cardinality(DOMAIN allocations') = Cardinality(DOMAIN allocations) + 1
               /\ \A a \in DOMAIN allocations : allocations'[a] = allocations[a]
    ]_vars

\* A laptop with a returned record has been allocated again: the returned
\* record stays inactive beside a newer, active record.
C4_ReallocatedAfterReturn ==
  \E a \in DOMAIN allocations, b \in DOMAIN allocations :
    /\ a < b
    /\ allocations[a].laptop_id = allocations[b].laptop_id
    /\ ~allocations[a].is_active
    /\ allocations[b].is_active

\* The step in which the return-form upload of session s on allocation id
\* answers after its blob write succeeded.
UploadReturnAnswers(s, id) ==
  /\ pc[s] \in {"upload_select", "upload_commit"}
  /\ pc'[s] = "idle"
  /\ loc[s].op = "return_forms"
  /\ loc[s].id = id

\* What the claim says of the answer of a return-form upload on the
\* existing allocation id whose object name is key.
UploadReturnGated(id, key) ==
  IF allocations[id].is_active
  THEN /\ response'.status = "Forbidden"
       /\ allocations'[id].return_form = allocations[id].return_form
  ELSE /\ response' = [op |-> "return_forms", status |-> "ok"]
       /\ allocations'[id].return_form = key

C6_ReturnFormPrecedence ==
  [][\A s \in Sessions, id \in DOMAIN allocations :
       GenerateForm(s, id, "return")
       => /\ allocations[id].allocation_form = NoKey
               => response'.status = "PrecedenceViolation"
          /\ response'.status = "ok" => allocations[id].allocation_form # NoKey
    ]_vars

\* C7 (as stated) -- every record whose return_form is set has
\* allocation_form set.
C7_ReturnFormImpliesAllocationForm ==
  \A a \in DOMAIN allocations :
    allocations[a].return_form # NoKey => allocations[a].allocation_form # NoKey

\* C7 (amended) -- every record whose return_form is set is a returned
\* record (is_active = false); its allocation_form may be empty.
C7_ReturnFormImpliesReturned ==
  \A a \in DOMAIN allocations :
    allocations[a].return_form # NoKey => ~allocations[a].is_active

\* A returned record carries a return form and no allocation form.
C7_ReturnFormWithoutAllocationForm ==
  \E a \in DOMAIN allocations :
    /\ allocations[a].return_form # NoKey
    /\ allocations[a].allocation_form = NoKey
    /\ ~allocations[a].is_active

\* C8 -- the ledger write and the status write of one CreateAllocation or
\* ReturnLaptop reach the store in the same step: a step of such a request
\* before its commit changes nothing; its commit either applies the
\* ledger write together with the pending status write, or (on failure)
\* changes nothing.
C8_LedgerAndStatusCommitTogether ==
  [][\A s \in Sessions :
       /\ ( /\ pc[s] \in {"idle", "return_select_laptop", "create_refresh",
                          "return_refresh"}
            /\ pc'[s] \in {"idle", "create_commit", "return_select_laptop",
                           "return_commit"}
            /\ pc'[s] # pc[s] )
          => (allocations' = allocations /\ laptops' = laptops)
       /\ (pc[s] = "create_commit" /\ pc'[s] # pc[s])
          => IF pc'[s] = "create_refresh"
             THEN /\ loc'[s].id \notin DOMAIN allocations
                  /\ loc'[s].id \in ActiveIn(allocations', loc[s].laptop_id)
                  /\ loc[s].loaded_status # loc[s].target
                       => laptops'[loc[s].laptop_id].status_id = loc[s].target
             ELSE allocations' = allocations /\ laptops' = laptops
       /\ (pc[s] = "return_commit" /\ pc'[s] # pc[s])
          => IF pc'[s] = "return_refresh"
             THEN /\ loc[s].loaded.is_active => ~allocations'[loc[s].id].is_active
                  /\ loc[s].loaded_status # loc[s].target
                       => laptops'[loc[s].laptop_id].status_id = loc[s].target
             ELSE allocations' = allocations /\ laptops' = laptops
    ]_vars

\* A CreateAllocation has committed while another request is in flight:
\* the new active record and the status "Allocated" are both in the store.
C8_CommittedUnitVisible ==
  \E s \in Sessions, t \in Sessions :
    /\ s # t
    /\ pc[s] = "create_refresh"
    /\ pc[t] \notin {"idle"}
    /\ loc[s].id \in ActiveAllocs(loc[s].laptop_id)
    /\ IsLaptopAllocated(loc[s].laptop_id)

\* C9 -- a ReturnLaptop on an allocation that is already returned either
\* fails or changes nothing: neither the record nor any laptop status.
C9_SecondReturnIsNoOp ==
  [][\A s \in Sessions :
       (pc[s] = "return_commit" /\ pc'[s] # pc[s] /\ ~loc[s].loaded.is_active)
       => (allocations' = allocations /\ laptops' = laptops)
    ]_vars

\* C10 -- a CreateAllocation whose laptop does not exist, or issued while
\* the "Allocated" status row is absent, answers NotFound and changes
\* neither the ledger nor any laptop.
C10_CreateNotFound ==
  [][\A s \in Sessions, u \in UserIds, l \in LaptopIds, a \in users :
       (BeginCreate(s, u, l, a)
          /\ (~LaptopExists(l) \/ StatusByName("Allocated") = None))
       => /\ response'.status = "NotFound"
          /\ allocations' = allocations /\ laptops' = laptops
    ]_vars

\* The step in which the commit of the ReturnLaptop of session s succeeds.
ReturnCommitted(s) == pc[s] = "return_commit" /\ pc'[s] = "return_refresh"

C12_ReturnNotFound ==
  [][\A s \in Sessions :
       /\ \A id \in AllocIds, r \in ReturnInputs, a \in users :
            (BeginReturn(s, id, r, a) /\ ~AllocExists(id))
            => /\ response'.status = "NotFound"
               /\ allocations' = allocations /\ laptops' = laptops
       /\ (ReturnSelectLaptop(s) /\ StatusByName("Available") = None)
            => /\ response'.status = "NotFound"
               /\ allocations' = allocations /\ laptops' = laptops
    ]_vars

C14_ActiveAllocationHasLaptop ==
  \A a \in DOMAIN allocations :
    allocations[a].is_active => LaptopExists(allocations[a].laptop_id)

\* The deletion of a laptop that an active record references has just been
\* refused.
C14_DeleteRefusedWhileAllocated ==
  /\ response = [op |-> "delete_laptop", status |-> "InternalError"]
  /\ \E a \in DOMAIN allocations :
       allocations[a].is_active /\ LaptopExists(allocations[a].laptop_id)

\* C15 -- a CreateAllocation or ReturnLaptop sent by an authenticated actor
\* who is not an administrator is rejected as unauthorized and changes no
\* allocation record and no laptop status.
C15_OnlyAdministratorsAllocate ==
  [][\A s \in Sessions :
       /\ (CreateCommit(s) /\ loc[s].allocator_id \notin superusers)
            => /\ response'.status = "Unauthorized"
               /\ allocations' = allocations /\ laptops' = laptops
       /\ (ReturnCommit(s) /\ loc[s].values.returned_by \notin superusers)
            => /\ response'.status = "Unauthorized"
               /\ allocations' = allocations /\ laptops' = laptops
    ]_vars

\* C16 -- the end-to-end scenario, step by step: the first CreateAllocation
\* on an Available laptop leaves it Allocated with exactly one active
\* record; an UploadReturnForm on the active record answers Forbidden; the
\* ReturnLaptop of the record leaves the laptop Available and the record
\* inactive; an UploadReturnForm on the returned record succeeds; and a
\* GenerateForm of kind Return on a record without allocation form answers
\* PrecedenceViolation.  (Uploads are those whose blob write succeeded.)
C16_EndToEndScenario ==
  [][LET c == ScenarioClient IN
     /\ (CreateCommit(c) /\ pc'[c] = "create_refresh" /\ allocations = << >>)
          => /\ laptops'[loc[c].laptop_id].status_id = StatusByName("Allocated")
             /\ Cardinality(ActiveIn(allocations', loc[c].laptop_id)) = 1
     /\ \A id \in DOMAIN allocations :
          UploadReturnAnswers(c, id) => UploadReturnGated(id, loc[c].object_name)
     /\ (ReturnCommitted(c) /\ allocations[loc[c].id].is_active)
          => /\ laptops'[loc[c].laptop_id].status_id = StatusByName("Available")
             /\ ~allocations'[loc[c].id].is_active
     /\ \A id \in DOMAIN allocations :
          (GenerateForm(c, id, "return") /\ allocations[id].allocation_form = NoKey)
          => response'.status = "PrecedenceViolation"
    ]_vars


\* One audit row was inserted by this step and the rows before it stand.
AuditAppended ==
  /\ Len(audit_logs') = Len(audit_logs) + 1
  /\ SubSeq(audit_logs', 1, Len(audit_logs)) = audit_logs

\* C17: every successful procurement operation (CreatePurchase,
\* UploadPurchaseOrder, DownloadPurchaseOrder, GetRecord, SearchRecords)
\* appends exactly one audit entry, in the step that commits the change it
\* describes: the procurement table never changes without an entry, and an
\* entry describing a change never appears without the change.
C17_AuditWithMutation ==
  [][/\ procurements' # procurements => AuditAppended
     /\ \A s \in Sessions, a \in users :
          /\ \A l \in PurchaseLaptopIds :
               CreatePurchase(s, a, l) /\ response'.status = "ok"
                 => AuditAppended /\ Len(procurements') = Len(procurements) + 1
          /\ \A p \in PurchaseIds :
               /\ QuietSearch(s, a, p) /\ ProcurementExists(p)
                    => audit_logs' = audit_logs /\ procurements' = procurements
               /\ DownloadPO(s, a, p) /\ response'.status = "ok" => AuditAppended
               /\ GetRecord(s, a, p) /\ response'.status = "ok" => AuditAppended
          /\ SearchRecords(s, a) => AuditAppended
     /\ \A s \in Sessions :
          /\ \A stored \in BOOLEAN :
               PoPutObject(s, stored)
                 => audit_logs' = audit_logs /\ procurements' = procurements
          /\ PoCommit(s) /\ response'.status = "ok"
               => /\ AuditAppended
                  /\ procurements'[loc[s].id].purchase_order_file = loc[s].object_name
     /\ ( /\ Len(audit_logs') > Len(audit_logs)
          /\ audit_logs'[Len(audit_logs')].action
               \in {"Added laptop to procurement table", "File Upload"} )
          => procurements' # procurements]_vars

\* C17 witness: a purchase order was uploaded; the record holds its key and
\* the log holds the "File Upload" entry of that record.
C17_UploadAudited ==
  /\ response.op = "upload_po"
  /\ response.status = "ok"
  /\ \E i \in DOMAIN audit_logs :
       /\ audit_logs[i].action = "File Upload"
       /\ ProcurementExists(audit_logs[i].record_id)
       /\ procurements[audit_logs[i].record_id].purchase_order_file # NoKey

\* C18: whenever UploadPurchaseOrder, DownloadPurchaseOrder or GetRecord
\* targets a procurement record id that does not exist, the request is
\* answered NotFound and the audit log is one entry longer afterwards.
C18_FailedLookupAudited ==
  [][\A s \in Sessions, a \in users, p \in PurchaseIds :
       ( /\ ~ProcurementExists(p)
         /\ \/ QuietSearch(s, a, p)
            \/ DownloadPO(s, a, p)
            \/ GetRecord(s, a, p) )
       => /\ response'.status = "NotFound"
          /\ AuditAppended]_vars

\* C19: the audit log is append-only: every step leaves the entries already
\* in the log as they were, in place, and removes none.
C19_AuditAppendOnly ==
  [][/\ Len(audit_logs') >= Len(audit_logs)
     /\ SubSeq(audit_logs', 1, Len(audit_logs)) = audit_logs]_vars

\* C19 witness: the log holds entries of two different operations, the
\* older one still in front of the newer one.
C19_LogGrew ==
  /\ Len(audit_logs) >= 2
  /\ audit_logs[1].action = "Added laptop to procurement table"
  /\ audit_logs[2].action = "File Upload"

\* The statuses with which an upload reports failure to its caller.
UploadFailures == {"UploadFailed", "NotFound", "Forbidden", "InternalError"}

\* The request of session s ended in this step.
RequestEnded(s) == pc'[s] = "idle" /\ loc'[s] = IdleLoc

\* C20: an upload (allocation form, return form, purchase order) whose blob
\* write fails, or whose metadata update fails after the blob was written,
\* ends with a failure status, makes no second attempt, and leaves every
\* document-key field as it was; a key changes only in a step that
\* answers success.
C20_UploadFailureSurfaced ==
  [][/\ \A s \in Sessions :
          /\ \A k \in FormKinds, id \in AllocIds :
               PutObject(s, k, id, FALSE)
                 => /\ response' = [op |-> k, status |-> "UploadFailed"]
                    /\ RequestEnded(s)
                    /\ blobs' = blobs
          /\ PoPutObject(s, FALSE)
               => /\ response' = [op |-> "upload_po", status |-> "UploadFailed"]
                  /\ RequestEnded(s)
                  /\ blobs' = blobs
          /\ ( /\ RepoUploadSelect(s) \/ RepoUploadCommit(s) \/ PoCommit(s)
               /\ pc'[s] = "idle"
               /\ response'.status # "ok" )
               => /\ response'.status \in UploadFailures
                  /\ RequestEnded(s)
                  /\ loc[s].object_name \in blobs'
     /\ ( \/ allocations' # allocations
          \/ \E p \in DOMAIN procurements :
               procurements'[p].purchase_order_file
                 # procurements[p].purchase_order_file )
          => response'.status = "ok"
     /\ response'.status # "ok" /\ response' # response
          => allocations' = allocations /\ (\A p \in DOMAIN procurements : procurements'[p] = procurements[p])]_vars

\* C20 witness: an upload for an allocation failed after its blob was
\* written: the blob is stored, no record references it, and a record
\* that had a form before still has that one.
C20_OrphanedBlob ==
  /\ response.op \in FormKinds
  /\ response.status \in {"NotFound", "Forbidden"}
  /\ \E b \in blobs :
       /\ b[3] > 0
       /\ \A a \in DOMAIN allocations :
            allocations[a].allocation_form # b /\ allocations[a].return_form # b
  /\ \E a \in DOMAIN allocations : allocations[a].allocation_form = EarlierForm(a)

UploadCommitted(s) == RepoUploadCommit(s) /\ response'.status = "ok"

LifecycleColumns ==
  {"user_id", "laptop_id", "allocated_by", "is_active", "return_date",
   "return_comment", "returned_by", "condition_on_return"}

\* The document-key columns of an allocation record.
DocumentColumns == {"allocation_form", "return_form"}

\* A step of UploadAllocationForm, UploadReturnForm, GenerateForm or a
\* download.
DocumentStep ==
  \/ \E s \in Sessions, k \in FormKinds, id \in AllocIds, stored \in BOOLEAN :
        PutObject(s, k, id, stored)
  \/ \E s \in Sessions : RepoUploadSelect(s) \/ RepoUploadCommit(s)
  \/ \E s \in Sessions, k \in FormKinds, id \in AllocIds, a \in users :
        DownloadForm(s, k, id, a)
  \/ \E s \in Sessions, id \in AllocIds, ft \in FormTypes : GenerateForm(s, id, ft)

\* C25: document operations only attach keys: no step of an upload, a
\* form generation or a download creates or removes an allocation record,
\* changes a lifecycle column or changes a laptop; a committed upload
\* changes exactly one document-key column of exactly one record.
C25_DocumentsOnlyAttachKeys ==
  [][DocumentStep
       => /\ DOMAIN allocations' = DOMAIN allocations
          /\ \A a \in DOMAIN allocations, c \in LifecycleColumns :
               allocations'[a][c] = allocations[a][c]
          /\ laptops' = laptops
          /\ \A s \in Sessions :
               UploadCommitted(s)
                 => Cardinality({ac \in (DOMAIN allocations) \X DocumentColumns :
                                   allocations'[ac[1]][ac[2]]
                                     # allocations[ac[1]][ac[2]]}) = 1
          /\ (allocations' # allocations
                => \E s \in Sessions : UploadCommitted(s))]_vars

\* C25 witness: a return form was attached to a returned allocation, which
\* is still returned, and its laptop is still Available.
C25_ReturnFormAttached ==
  /\ response = [op |-> "return_forms", status |-> "ok"]
  /\ \E id \in DOMAIN allocations :
       /\ allocations[id].return_form # NoKey
       /\ ~allocations[id].is_active
       /\ allocations[id].return_date = FirstReturn.return_date
       /\ laptops[allocations[id].laptop_id].status_id = StatusByName("Available")

\* C28: a rejected form upload stores nothing: when UploadAllocationForm
\* answers NotFound, or UploadReturnForm answers NotFound or Forbidden, the
\* object the call named is not in the blob store.
C28_RejectedUploadStoresNothing ==
  [][\A s \in Sessions :
       ( /\ RepoUploadSelect(s)
         /\ pc'[s] = "idle"
         /\ response'.status \in {"NotFound", "Forbidden"} )
       => loc[s].object_name \notin blobs']_vars

\* C23: deleting a user deletes every allocation record the user holds,
\* active ones included, and leaves the other records as they are; the
\* deletion of an existing user by an administrator is refused only by a
\* foreign key of a row that stays, never because the user holds an active
\* allocation.
C23_DeleteUserCascades ==
  [][\A s \in Sessions, a \in users, u \in UserIds :
       DeleteUser(s, a, u)
         => /\ response'.status = "ok"
                 <=> (a \in superusers /\ u \in users /\ DeleteUserFlushOk(u))
            /\ response'.status = "ok"
                 => /\ users' = users \ {u}
                    /\ DOMAIN allocations' =
                         {x \in DOMAIN allocations : allocations[x].user_id # u}
                    /\ \A x \in DOMAIN allocations' : allocations'[x] = allocations[x]
            /\ response'.status # "ok"
                 => users' = users /\ allocations' = allocations]_vars

\* C23 witness: a user was deleted and with it an active allocation
\* record: its laptop is still marked Allocated and no active record
\* references it.
C23_ActiveHolderDeleted ==
  /\ response = [op |-> "delete_user", status |-> "ok"]
  /\ alloc_counter > Cardinality(DOMAIN allocations)
  /\ \E l \in DOMAIN laptops : IsLaptopAllocated(l) /\ ActiveAllocs(l) = {}

\* C24: an action rejected because the actor is not an administrator
\* appends an audit entry recording the attempt, is answered Unauthorized
\* and changes no other state.
C24_UnauthorizedAudited ==
  [][\A s \in Sessions, a \in users, u \in UserIds :
       ( /\ a \notin superusers
         /\ CreateUser(s, a, u) \/ DeleteUser(s, a, u) )
       => /\ response'.status = "Unauthorized"
          /\ AuditAppended
          /\ UNCHANGED <<users, superusers, allocations, laptops>>]_vars

\* C29: user deletion keeps status and ledger in agreement: when a user is
\* deleted in a state where a laptop is Allocated exactly when an active
\* record references it, no laptop is afterwards Allocated without an
\* active record.
C29_DeleteUserKeepsAgreement ==
  [][\A s \in Sessions, a \in users, u \in UserIds :
       ( /\ DeleteUser(s, a, u)
         /\ response'.status = "ok"
         /\ \A l \in DOMAIN laptops : IsLaptopAllocated(l) <=> ActiveAllocs(l) # {} )
       => \A l \in DOMAIN laptops' :
            ~( /\ laptops'[l].status_id = StatusByName("Allocated")
               /\ ActiveIn(allocations', l) = {} )]_vars

\* C26: audit asymmetry: no step of CreateAllocation, ReturnLaptop or of an
\* allocation-form upload, download or generation appends, modifies or
\* removes an audit entry, whether the request succeeds or fails.
C26_AllocationSideNotAudited ==
  [][((\E s \in Sessions : LedgerStep(s, {FirstReturn})) \/ DocumentStep)
       => audit_logs' = audit_logs]_vars

\* C26 witness: an allocation was created during the run and a form was
\* downloaded, and the audit log still holds the purchase entry alone.
C26_LedgerMovedLogStill ==
  /\ alloc_counter > MaxLaptops
  /\ response.op \in {"download_allocation_form", "download_return_form"}
  /\ response.status = "ok"
  /\ Len(audit_logs) = 1
  /\ audit_logs[1].action = "Added laptop to procurement table"

\* C27: procurement is decoupled from the allocation lifecycle: no step of
\* a procurement operation (create, upload PO, download PO, get, search)
\* changes a laptop's status or an allocation record, and a purchase of a
\* registered laptop is recorded whatever the laptop's status, its
\* allocations and the purchases already recorded for it.
C27_ProcurementDecoupled ==
  [][/\ NextProcurement => laptops' = laptops /\ allocations' = allocations
     /\ \A s \in Sessions, a \in users, l \in PurchaseLaptopIds :
          CreatePurchase(s, a, l) /\ LaptopExists(l)
            => /\ response' = [op |-> "create_purchase", status |-> "ok"]
               /\ procurements'[Len(procurements')].laptop_id = l]_vars

\* C27 witness: two procurement records reference the same laptop, which
\* is Allocated with an active allocation record all along.
C27_TwoPurchasesOfAllocatedLaptop ==
  \E p, q \in DOMAIN procurements :
    /\ p # q
    /\ procurements[p].laptop_id = procurements[q].laptop_id
    /\ IsLaptopAllocated(procurements[p].laptop_id)
    /\ ActiveAllocs(procurements[p].laptop_id) # {}

\* The audit entry written by this step.
WrittenEntry == audit_logs'[Len(audit_logs')]

\* C30: audit entries identify their subject: the entry written by
\* CreatePurchase carries the id of the procurement record the call
\* created, and the entry written by an operation on an existing record
\* (upload PO, download PO, get record) carries that record's id; each
\* names the procurement table as its subject table.
C30_AuditIdentifiesSubject ==
  [][/\ \A s \in Sessions, a \in users :
          /\ \A l \in PurchaseLaptopIds :
               CreatePurchase(s, a, l) /\ response'.status = "ok"
                 => /\ WrittenEntry.record_id = Len(procurements')
                    /\ WrittenEntry.table_name = "is_laptopprocurement"
          /\ \A p \in PurchaseIds :
               ( /\ DownloadPO(s, a, p) \/ GetRecord(s, a, p)
                 /\ response'.status = "ok" )
               => /\ WrittenEntry.record_id = p
                  /\ WrittenEntry.table_name = "is_laptopprocurement"
     /\ \A s \in Sessions :
          PoCommit(s) /\ response'.status = "ok"
            => /\ WrittenEntry.record_id = loc[s].id
               /\ WrittenEntry.table_name = "is_laptopprocurement"]_vars
====
